---- MODULE Spec2Model ----
(***************************************************************************)
(* Model of the request-orchestration core of the TOE AI backend:          *)
(*   - the usage admission gate (app/core/database.py, routes/chats.py),   *)
(*   - the speech bridge and the audio round trip (routes/ai.py),          *)
(*   - the conversation assembly of the completion routes (routes/ai.py).  *)
(*   - the text extraction of attached files (process_attached_files),    *)
(*   - the helper functions calculate_openai_cost and                      *)
(*     build_interview_system_prompt,                                      *)
(*   - the messages sent to a stored interview chat (routes/chats.py).     *)
(* Every datastore / provider call is one atomic step; a handler that      *)
(* makes several calls is a sequence of steps driven by its pc.            *)
(***************************************************************************)
EXTENDS Integers, Sequences, FiniteSets, TLC

(***************************************************************************)
(* Bounds of the model                                                     *)
(***************************************************************************)
NumRequests == 2
TierNormalLimit == 2
TierInterviewLimit == 1

(***************************************************************************)
(* Program constants                                                       *)
(***************************************************************************)
FREE_NORMAL_CHAT_LIMIT == 10
FREE_INTERVIEW_CHAT_LIMIT == 5

Requests == 1..NumRequests
ChatTypes == {"normal", "interview"}
Environments == {"development", "production"}

VARIABLES
    ENVIRONMENT,      \* settings.ENVIRONMENT
    user_subscriptions, \* newest user_subscriptions row of the user, joined with its tier
    usage_tracking,   \* rows of table usage_tracking for the user (a sequence)
    chat_rows,        \* number of rows inserted into normal_chat / interview_chat
    req,              \* the chat-creation requests in flight
    was_reset,        \* an external reset has run
    since_reset       \* chats created per kind since the counters were last reset

gateVars == <<ENVIRONMENT, user_subscriptions, usage_tracking, chat_rows, req,
              was_reset, since_reset>>

VARIABLES
    ai_in,            \* the inputs of the AI-route request being served
    ai_pc,            \* the position of that request in its handler(s)
    ai,               \* the handler's locals (file_extension, user_text, ai_text,
                      \* audio_url, the exception speech_to_text caught, and
                      \* the file_contents of process_attached_files, with
                      \* the PDF readers it tried for each file)
    messages,         \* the message list sent to the completion provider
    calls,            \* the external provider calls made for the request, in order
    temp_file,        \* the temporary audio file: "none", "exists", "deleted"
    api_usage_logs,   \* the calls of log_api_usage: the endpoint logged, and
                      \* whether the row was written to table api_usage_logs
    response,         \* the response of the request
    helper_calls      \* the calls made to a helper function of routes/ai.py: its
                      \* arguments and what it returned

VARIABLES
    interview_chat_row, \* the rows of table interview_chat that match the chat id
                        \* and the user (none or one), with their conversation
    send                \* the send_interview_chat_message requests in flight

sendVars == <<interview_chat_row, send>>

aiVars == <<ai_in, ai_pc, ai, messages, calls, temp_file, api_usage_logs, response,
            helper_calls, sendVars>>

vars == <<gateVars, aiVars>>

(***************************************************************************)
(* Usage admission gate                                                    *)
(***************************************************************************)

\* The subscription rows a user can have: none, one without a joined tier,
\* or one joined with a tier that sets its own limits.
Subscriptions ==
    { [has_row |-> FALSE, has_tier |-> FALSE, normal_chat_limit |-> 0, interview_chat_limit |-> 0],
      [has_row |-> TRUE, has_tier |-> FALSE, normal_chat_limit |-> 0, interview_chat_limit |-> 0],
      [has_row |-> TRUE, has_tier |-> TRUE, normal_chat_limit |-> TierNormalLimit,
       interview_chat_limit |-> TierInterviewLimit] }

EffectiveLimit_RowOnly(sub, chat_type) ==
    IF sub.has_row
    THEN IF chat_type = "normal" THEN sub.normal_chat_limit ELSE sub.interview_chat_limit
    ELSE IF chat_type = "normal" THEN FREE_NORMAL_CHAT_LIMIT ELSE FREE_INTERVIEW_CHAT_LIMIT

\* database.py 187-194: limits of the tier in effect.
EffectiveLimit(sub, chat_type) ==
    IF sub.has_row /\ sub.has_tier
    THEN IF chat_type = "normal" THEN sub.normal_chat_limit ELSE sub.interview_chat_limit
    ELSE IF chat_type = "normal" THEN FREE_NORMAL_CHAT_LIMIT ELSE FREE_INTERVIEW_CHAT_LIMIT

UnderLimit_Inclusive(used, limit) == used <= limit

\* database.py 197-200: the comparison that admits a creation.
UnderLimit(used, limit) == used < limit

UsageRow(n, i) == [normal |-> n, interview |-> i]

\* usage.get("<kind>_chats_used", 0) of the first row returned; 0 when no row.
Used(chat_type) ==
    IF usage_tracking = <<>> THEN 0 ELSE usage_tracking[1][chat_type]

Limit(chat_type) == EffectiveLimit(user_subscriptions, chat_type)

IdleRequest ==
    [pc |-> "idle", chat_type |-> "normal", can_create |-> FALSE,
     read_failed |-> FALSE, current_usage |-> 0, inserted |-> FALSE,
     wrote |-> FALSE, status |-> 0]

\* The counters a user can have when the requests arrive: no row, a fresh
\* row, or a row one below / at the limits of the tier in effect.
InitialUsage(sub) ==
    LET ln == EffectiveLimit(sub, "normal")
        li == EffectiveLimit(sub, "interview")
    IN  { <<>>, <<UsageRow(0, 0)>>, <<UsageRow(ln - 1, li - 1)>>, <<UsageRow(ln, li)>> }

GateInit ==
    /\ ENVIRONMENT \in Environments
    /\ user_subscriptions \in Subscriptions
    /\ usage_tracking \in InitialUsage(user_subscriptions)
    /\ chat_rows = [k \in ChatTypes |-> 0]
    /\ req = [r \in Requests |-> IdleRequest]
    /\ was_reset = FALSE
    /\ since_reset = [k \in ChatTypes |->
                        IF usage_tracking = <<>> THEN 0 ELSE usage_tracking[1][k]]

\* A send_interview_chat_message request that has not started.
IdleSend ==
    [pc |-> "idle", chat_data |-> <<>>, conversation |-> <<>>, messages |-> <<>>,
     status |-> 0]

\* No message is being sent to a stored interview chat.
SendOff ==
    /\ interview_chat_row = <<>>
    /\ send = [r \in Requests |-> IdleSend]

\* No AI route is being served.
AiIdle ==
    /\ ai_in = [endpoint |-> "none"]
    /\ ai_pc = "off"
    /\ ai = [file_extension |-> "", user_text |-> 0, ai_text |-> 0, audio_url |-> "null",
            raised |-> "none", file_contents |-> <<>>, pdf_attempts |-> <<>>]
    /\ messages = <<>>
    /\ calls = <<>>
    /\ temp_file = "none"
    /\ api_usage_logs = <<>>
    /\ response = [status |-> 0]
    /\ helper_calls = <<>>

\* No AI-route request is being served.
AiOff == AiIdle /\ SendOff

InitGate == GateInit /\ AiOff

Deny(r, chat_type, failed) ==
    req' = [req EXCEPT ![r] = [@ EXCEPT !.pc = "done", !.chat_type = chat_type,
                                        !.can_create = FALSE, !.status = 402,
                                        !.read_failed = failed]]

Admit(r, chat_type) ==
    req' = [req EXCEPT ![r] = [@ EXCEPT !.pc = "insert_chat", !.chat_type = chat_type,
                                        !.can_create = TRUE]]

\* check_usage_limit, development mode: always allow (database.py 147-149).
CheckDevelopment(r, chat_type) ==
    /\ req[r].pc = "idle"
    /\ ENVIRONMENT = "development"
    /\ Admit(r, chat_type)
    /\ UNCHANGED <<aiVars, ENVIRONMENT, user_subscriptions, usage_tracking, chat_rows,
                   was_reset, since_reset>>

\* check_usage_limit: a datastore read raises; the handler returns False
\* outside development mode (database.py 204-210) and the route answers 402.
CheckReadFails(r, chat_type) ==
    /\ req[r].pc = "idle"
    /\ ENVIRONMENT # "development"
    /\ Deny(r, chat_type, TRUE)
    /\ UNCHANGED <<aiVars, ENVIRONMENT, user_subscriptions, usage_tracking, chat_rows,
                   was_reset, since_reset>>

\* check_usage_limit: the select finds no usage row (database.py 155-162);
\* the insert of the fresh row is the next datastore call.
CheckNoRow(r, chat_type) ==
    /\ req[r].pc = "idle"
    /\ ENVIRONMENT # "development"
    /\ usage_tracking = <<>>
    /\ req' = [req EXCEPT ![r] = [@ EXCEPT !.pc = "create_usage_row",
                                           !.chat_type = chat_type]]
    /\ UNCHANGED <<aiVars, ENVIRONMENT, user_subscriptions, usage_tracking, chat_rows,
                   was_reset, since_reset>>

\* check_usage_limit: insert the fresh usage row and allow (database.py 163-173),
\* or the insert raises and the check returns False.
CreateUsageRow(r) ==
    /\ req[r].pc = "create_usage_row"
    /\ \/ /\ usage_tracking' = Append(usage_tracking, UsageRow(0, 0))
          /\ req' = [req EXCEPT ![r] = [@ EXCEPT !.pc = "insert_chat", !.can_create = TRUE]]
       \/ /\ UNCHANGED usage_tracking
          /\ req' = [req EXCEPT ![r] = [@ EXCEPT !.pc = "done", !.can_create = FALSE,
                                                 !.status = 402, !.read_failed = TRUE]]
    /\ UNCHANGED <<aiVars, ENVIRONMENT, user_subscriptions, chat_rows, was_reset, since_reset>>

\* check_usage_limit: a usage row exists; compare its counter with the limit
\* of the tier in effect (database.py 175-202).
CheckRow(r, chat_type) ==
    /\ req[r].pc = "idle"
    /\ ENVIRONMENT # "development"
    /\ usage_tracking # <<>>
    /\ IF UnderLimit(Used(chat_type), Limit(chat_type))
       THEN Admit(r, chat_type)
       ELSE Deny(r, chat_type, FALSE)
    /\ UNCHANGED <<aiVars, ENVIRONMENT, user_subscriptions, usage_tracking, chat_rows,
                   was_reset, since_reset>>

Finish(r, code) == [req[r] EXCEPT !.pc = "done", !.status = code, !.current_usage = 0]

InsertChat_IncrementOnFailure(r) ==
    /\ req[r].pc = "insert_chat"
    /\ \/ /\ chat_rows' = [chat_rows EXCEPT ![req[r].chat_type] = @ + 1]
          /\ since_reset' = [since_reset EXCEPT ![req[r].chat_type] = @ + 1]
          /\ req' = [req EXCEPT ![r] = [@ EXCEPT !.pc = "increment_usage",
                                                 !.inserted = TRUE]]
       \/ /\ UNCHANGED <<chat_rows, since_reset>>
          /\ req' = [req EXCEPT ![r] = [@ EXCEPT !.pc = "increment_usage"]]
    /\ UNCHANGED <<aiVars, ENVIRONMENT, user_subscriptions, usage_tracking, was_reset>>

\* create_normal_chat / create_interview_chat: insert the chat row
\* (chats.py 127-144, 409-431); no row returned -> 400, exception -> 500.
InsertChat(r) ==
    /\ req[r].pc = "insert_chat"
    /\ \/ /\ chat_rows' = [chat_rows EXCEPT ![req[r].chat_type] = @ + 1]
          /\ since_reset' = [since_reset EXCEPT ![req[r].chat_type] = @ + 1]
          /\ req' = [req EXCEPT ![r] = [@ EXCEPT !.pc = "increment_usage",
                                                 !.inserted = TRUE]]
       \/ /\ UNCHANGED <<chat_rows, since_reset>>
          /\ \E code \in {400, 500} : req' = [req EXCEPT ![r] = Finish(r, code)]
    /\ UNCHANGED <<aiVars, ENVIRONMENT, user_subscriptions, usage_tracking, was_reset>>

\* The datastore function increment_usage_count: one atomic +1 on the
\* counter of the user's usage rows.
increment_usage_count(rows, chat_type) ==
    [i \in 1..Len(rows) |-> [rows[i] EXCEPT ![chat_type] = @ + 1]]

\* increment_usage: the RPC succeeds (database.py 218-231), or it raises and
\* the handler goes to its fallback (database.py 232-236).
IncrementUsage(r) ==
    /\ req[r].pc = "increment_usage"
    /\ \/ /\ usage_tracking' = increment_usage_count(usage_tracking, req[r].chat_type)
          /\ req' = [req EXCEPT ![r] = [Finish(r, 201) EXCEPT
                                          !.wrote = (usage_tracking # <<>>)]]
       \/ /\ UNCHANGED usage_tracking
          /\ req' = [req EXCEPT ![r] = [@ EXCEPT !.pc = "fallback_select"]]
    /\ UNCHANGED <<aiVars, ENVIRONMENT, user_subscriptions, chat_rows, was_reset, since_reset>>

\* increment_usage fallback: read the row (database.py 236-238); the read
\* raising, or finding no row, ends the increment without a write.
FallbackSelect(r) ==
    /\ req[r].pc = "fallback_select"
    /\ \/ /\ usage_tracking # <<>>
          /\ req' = [req EXCEPT ![r] = [@ EXCEPT !.pc = "fallback_update",
                                                 !.current_usage = Used(req[r].chat_type)]]
       \/ req' = [req EXCEPT ![r] = Finish(r, 201)]
    /\ UNCHANGED <<aiVars, ENVIRONMENT, user_subscriptions, usage_tracking, chat_rows,
                   was_reset, since_reset>>

\* increment_usage fallback: write back the value read plus one
\* (database.py 239-254); the update raising leaves the rows as they are.
FallbackUpdate(r) ==
    /\ req[r].pc = "fallback_update"
    /\ \/ /\ usage_tracking' =
                [i \in 1..Len(usage_tracking) |->
                    [usage_tracking[i] EXCEPT ![req[r].chat_type] = req[r].current_usage + 1]]
          /\ req' = [req EXCEPT ![r] = [Finish(r, 201) EXCEPT
                                          !.wrote = (usage_tracking # <<>>)]]
       \/ /\ UNCHANGED usage_tracking
          /\ req' = [req EXCEPT ![r] = Finish(r, 201)]
    /\ UNCHANGED <<aiVars, ENVIRONMENT, user_subscriptions, chat_rows, was_reset, since_reset>>

\* reset_user_usage / reset_all_usage: the external reset of the counters.
ResetUsage ==
    /\ usage_tracking # <<>>
    /\ usage_tracking' = [i \in 1..Len(usage_tracking) |-> UsageRow(0, 0)]
    /\ since_reset' = [k \in ChatTypes |-> 0]
    /\ was_reset' = TRUE
    /\ UNCHANGED <<aiVars, ENVIRONMENT, user_subscriptions, chat_rows, req>>

NextGate ==
    \/ \E r \in Requests, k \in ChatTypes : CheckDevelopment(r, k)
    \/ \E r \in Requests, k \in ChatTypes : CheckReadFails(r, k)
    \/ \E r \in Requests, k \in ChatTypes : CheckNoRow(r, k)
    \/ \E r \in Requests, k \in ChatTypes : CheckRow(r, k)
    \/ \E r \in Requests : CreateUsageRow(r)
    \/ \E r \in Requests : InsertChat(r)
    \/ \E r \in Requests : IncrementUsage(r)
    \/ \E r \in Requests : FallbackSelect(r)
    \/ \E r \in Requests : FallbackUpdate(r)
    \/ ResetUsage

SpecGate == InitGate /\ [][NextGate]_vars

(***************************************************************************)
(* Claims about the usage admission gate                                   *)
(***************************************************************************)

Quiescent == \A r \in Requests : req[r].pc \in {"idle", "done"}

InIncrementUsage(r) ==
    req[r].pc \in {"increment_usage", "fallback_select", "fallback_update"}

\* C1: concurrent chat creations never push a counter over the limit of the
\* tier in effect. Stated here for non-development deployments only, where
\* check_usage_limit does compare the counter with the limit.
C1_NoOvershoot ==
    ENVIRONMENT # "development" =>
        \A k \in ChatTypes : Used(k) <= Limit(k)

C3_IncrementOnlyAfterInsert ==
    \A r \in Requests :
        /\ (InIncrementUsage(r) \/ req[r].wrote)
              => (req[r].can_create /\ req[r].inserted)
        /\ (req[r].pc = "done" /\ req[r].status \in {400, 402, 500})
              => (~req[r].wrote /\ ~req[r].inserted)

\* C3 witness: one creation was admitted and its insert failed, another was
\* denied, and neither wrote a counter.
C3_Witness ==
    \E r1, r2 \in Requests :
        /\ req[r1].pc = "done" /\ req[r1].can_create /\ req[r1].status = 400
        /\ ~req[r1].wrote
        /\ req[r2].pc = "done" /\ ~req[r2].can_create /\ req[r2].status = 402
        /\ ~req[r2].wrote

\* C4: once the creations have run to completion (and no reset ran), each
\* counter of a user that has a usage row equals the number of chats of that
\* kind that were created.
C4_CounterMatchesCreated ==
    (Quiescent /\ ~was_reset /\ usage_tracking # <<>>) =>
        \A k \in ChatTypes : Used(k) = since_reset[k]

\* C17: a creation answered 402 was denied because the used count had
\* reached the limit, and every other failure of a creation (a read of the
\* datastore that fails, an insert that returns no row or raises) is
\* answered 400 or 500.
C17_QuotaDistinguishable ==
    \A r \in Requests :
        req[r].pc = "done" =>
            /\ req[r].status = 402 => ~req[r].read_failed
            /\ (req[r].can_create /\ ~req[r].inserted) => req[r].status \in {400, 500}
            /\ req[r].read_failed => req[r].status \in {400, 500}

\* C23: outside development mode, once the counter of a kind has reached
\* the limit of the tier in effect no chat of that kind is created, and no
\* step of a request lowers a counter (only the external reset does).
C23_AtLimitIsTerminal ==
    [][ENVIRONMENT # "development" =>
          \A k \in ChatTypes :
              /\ (usage_tracking # <<>> /\ Used(k) >= Limit(k))
                 => chat_rows'[k] = chat_rows[k]
              /\ (req' # req /\ usage_tracking # <<>>)
                 => usage_tracking'[1][k] >= usage_tracking[1][k]]_vars

C25_OneUsageRow == Len(usage_tracking) <= 1

\* C28: outside development mode a creation is answered 402 only at a moment
\* when the used count of the requested kind is at or above the limit of the
\* tier in effect; a datastore failure inside the check is not answered 402.
C28_Only402AtLimit ==
    [][\A r \in Requests :
          (/\ ENVIRONMENT # "development"
           /\ req[r].status # 402
           /\ req'[r].status = 402)
          => /\ Used(req'[r].chat_type) >= Limit(req'[r].chat_type)
             /\ usage_tracking # <<>>]_vars

(***************************************************************************)
(* Speech bridge and audio round trip (routes/ai.py)                       *)
(***************************************************************************)

MAX_FILE_SIZE == 10 * 1024 * 1024
ALLOWED_AUDIO_EXTENSIONS == {"mp3", "wav", "m4a", "ogg"}
valid_voices == {"alloy", "echo", "fable", "onyx", "nova", "shimmer"}
\* text_to_speech: len(text) > 4000 is rejected.
MaxTtsChars == 4000
\* text_to_speech: 0.25 <= speed <= 4.0, in hundredths.
MinSpeed == 25
MaxSpeed == 400
\* ChatMessageRequest.content: min_length=1, max_length=4000.
ContentMinLength == 1
ContentMaxLength == 4000

\* An upload's content type is <<>> (None) or <<type, subtype>>.
ContentTypes == { <<>>, <<"audio", "mpeg">>, <<"video", "mp4">> }

\* A filename is the sequence of its parts between dots; <<>> is the empty
\* (or missing) filename and a one-part name has no dot.
Filenames ==
    { <<>>, <<"recording">>, <<"talk", "mp3">>, <<"talk", "MP3">>,
      <<"talk", "exe">>, <<"talk", "tar", "ogg">>, <<"talk", "">> }

\* str.lower() on the extensions of Filenames.
Lower(x) == IF x = "MP3" THEN "mp3" ELSE x

\* audio.content_type and audio.content_type.startswith("audio/")
IsAudioContentType(ct) == ct # <<>> /\ ct[1] = "audio"

\* "not audio.filename or '.' not in audio.filename"
HasNoExtension(fn) == Len(fn) <= 1

\* audio.filename.split(".")[-1].lower(), "wav" when there is no extension.
FileExtension(fn) == IF HasNoExtension(fn) THEN "wav" ELSE Lower(fn[Len(fn)])

\* The extension check is made only for a filename that has a dot.
ExtensionRejected(fn) ==
    ~HasNoExtension(fn) /\ FileExtension(fn) \notin ALLOWED_AUDIO_EXTENSIONS

FileSizes == {1, MAX_FILE_SIZE, MAX_FILE_SIZE + 1}
TtsTextLens == {0, 12, MaxTtsChars, MaxTtsChars + 1}
Voices == {"alloy", "nova", "robot"}
Speeds == {MinSpeed - 1, MinSpeed, 100, MaxSpeed, MaxSpeed + 1}
\* Lengths of the text a transcription / a completion can return.
TranscriptLens == {0, 7, ContentMaxLength + 1}
CompletionLens == {9, MaxTtsChars + 1}

NoAudio == [content_type |-> <<>>, filename |-> <<>>, size |-> 1]
Uploads == [content_type : ContentTypes, filename : Filenames, size : FileSizes]

AiInput(endpoint, upload, text, voice, speed, context, include_text) ==
    [endpoint |-> endpoint, audio |-> upload, text |-> text, voice |-> voice,
     speed |-> speed, has_context |-> context, include_text_response |-> include_text,
     conversation_history |-> <<>>, files |-> <<>>, blank |-> FALSE]

\* The requests of the three speech routes.
SpeechRequests ==
    { AiInput("speech_to_text", u, 0, "alloy", 100, FALSE, TRUE) : u \in Uploads }
    \cup { AiInput("text_to_speech", NoAudio, t, v, sp, FALSE, TRUE) :
             t \in TtsTextLens, v \in Voices, sp \in Speeds }
    \cup UNION { { AiInput("audio_chat", u, 0, v, 100, c, TRUE) : u \in Uploads }
                 : v \in Voices, c \in BOOLEAN }

\* A response: the HTTP status and the fields of the body (-1 / "absent" when
\* the body does not carry them).
Response(code, user_text, ai_text, audio_url) ==
    [status |-> code, user_text |-> user_text, ai_text |-> ai_text,
     audio_url |-> audio_url]

NoResponse == Response(0, -1, -1, "absent")

FirstPc(endpoint) ==
    IF endpoint = "text_to_speech" THEN "tts_validate"
    ELSE IF endpoint \in {"chat_completion", "interview_chat"} THEN "chat_assemble"
    ELSE "stt_validate"

AiStart(inputs) ==
    /\ ai_in \in inputs
    /\ ai_pc = FirstPc(ai_in.endpoint)
    /\ ai = [file_extension |-> "", user_text |-> 0, ai_text |-> 0, audio_url |-> "null",
            raised |-> "none", file_contents |-> <<>>, pdf_attempts |-> <<>>]
    /\ messages = <<>>
    /\ calls = <<>>
    /\ temp_file = "none"
    /\ api_usage_logs = <<>>
    /\ response = NoResponse
    /\ helper_calls = <<>>
    /\ SendOff

\* The admission gate at rest.
GateOff ==
    /\ ENVIRONMENT = "development"
    /\ user_subscriptions = [has_row |-> FALSE, has_tier |-> FALSE,
                             normal_chat_limit |-> 0, interview_chat_limit |-> 0]
    /\ usage_tracking = <<UsageRow(0, 0)>>
    /\ chat_rows = [k \in ChatTypes |-> 0]
    /\ req = [r \in Requests |-> IdleRequest]
    /\ was_reset = FALSE
    /\ since_reset = [k \in ChatTypes |-> 0]

InitAudio == GateOff /\ AiStart(SpeechRequests)

\* One call to an external provider: which one, whether it succeeded, and
\* the number of characters of text it was given.
Call(provider, ok, chars) == [provider |-> provider, ok |-> ok, chars |-> chars]

\* The request ends with an HTTPException of the given status.
Raise(code) ==
    /\ ai_pc' = "done"
    /\ response' = Response(code, -1, -1, "absent")

\* db.log_api_usage: one insert into api_usage_logs, which may fail; the
\* failure is caught inside log_api_usage (database.py 256-285).
LogApiUsage(endpoint, written) ==
    api_usage_logs' = Append(api_usage_logs, [endpoint |-> endpoint, written |-> written])

StatusAfterLog_FailOnError(written) == IF written THEN 200 ELSE 500

\* The status of a request whose work succeeded, after the call of
\* log_api_usage: the routes ignore what it returns (ai.py 106-115, 215-224,
\* 322-328, 409-415).
StatusAfterLog(written) == 200

\* speech_to_text 262-282: content type and extension checks, before the try.
SttValidate ==
    /\ ai_pc = "stt_validate"
    /\ IF ~IsAudioContentType(ai_in.audio.content_type)
       THEN Raise(400) /\ UNCHANGED ai
       ELSE IF ExtensionRejected(ai_in.audio.filename)
            THEN Raise(400) /\ UNCHANGED ai
            ELSE /\ ai_pc' = "stt_buffer"
                 /\ ai' = [ai EXCEPT !.file_extension = FileExtension(ai_in.audio.filename)]
                 /\ UNCHANGED response
    /\ UNCHANGED <<gateVars, sendVars, helper_calls, ai_in, messages, calls, temp_file, api_usage_logs>>

CleanupOnError_Skip(file) == file

\* speech_to_text 337-343: the except block removes the temp file if it exists.
CleanupOnError(file) == IF file = "exists" THEN "deleted" ELSE file

\* speech_to_text 337-349: every exception raised inside the try, an
\* HTTPException included, is answered with 500.
SttErrorStatus(raised) == 500

\* speech_to_text 284-306: buffer the upload in a temp file, then check its size.
SttBuffer ==
    /\ ai_pc = "stt_buffer"
    /\ \/ \* makedirs / open raises: no file was created
          /\ temp_file' = CleanupOnError("none")
          /\ ai' = [ai EXCEPT !.raised = "OSError"]
          /\ Raise(SttErrorStatus("OSError"))
       \/ \* read / write raises: the file exists
          /\ temp_file' = CleanupOnError("exists")
          /\ ai' = [ai EXCEPT !.raised = "OSError"]
          /\ Raise(SttErrorStatus("OSError"))
       \/ \* too large: os.remove, then HTTPException(400) inside the try
          /\ ai_in.audio.size > MAX_FILE_SIZE
          /\ temp_file' = CleanupOnError("deleted")
          /\ ai' = [ai EXCEPT !.raised = "HTTPException(400)"]
          /\ Raise(SttErrorStatus("HTTPException(400)"))
       \/ /\ ai_in.audio.size <= MAX_FILE_SIZE
          /\ temp_file' = "exists"
          /\ ai_pc' = "stt_transcribe"
          /\ UNCHANGED <<ai, response>>
    /\ UNCHANGED <<gateVars, sendVars, helper_calls, ai_in, messages, calls, api_usage_logs>>

\* speech_to_text 308-335 returns to its caller: the route itself, or audio_chat
\* (ai.py 449-450).
SttReturn(text, written) ==
    IF ai_in.endpoint = "speech_to_text"
    THEN /\ ai_pc' = "done"
         /\ response' = Response(StatusAfterLog(written), text, -1, "absent")
    ELSE /\ ai_pc' = "chat_request"
         /\ UNCHANGED response

\* speech_to_text 308-349: the Whisper call, the removal of the temp file and
\* the usage log; a provider error goes to the except block.
Transcribe ==
    /\ ai_pc = "stt_transcribe"
    /\ \/ \E text \in TranscriptLens, written \in BOOLEAN :
             /\ calls' = Append(calls, Call("transcription", TRUE, 0))
             /\ temp_file' = "deleted"
             /\ LogApiUsage("whisper_transcribe", written)
             /\ ai' = [ai EXCEPT !.user_text = text]
             /\ SttReturn(text, written)
       \/ /\ calls' = Append(calls, Call("transcription", FALSE, 0))
          /\ temp_file' = CleanupOnError(temp_file)
          /\ ai' = [ai EXCEPT !.raised = "ProviderError"]
          /\ Raise(SttErrorStatus("ProviderError"))
          /\ UNCHANGED api_usage_logs
    /\ UNCHANGED <<gateVars, sendVars, helper_calls, ai_in, messages>>

\* audio_chat 452-466: ChatMessageRequest(content=user_text) validates the
\* length of the transcript; the ValidationError is answered with 500 (493-498).
ChatRequest ==
    /\ ai_pc = "chat_request"
    /\ IF ai.user_text < ContentMinLength \/ ai.user_text > ContentMaxLength
       THEN Raise(500)
       ELSE ai_pc' = "chat_assemble" /\ UNCHANGED response
    /\ UNCHANGED <<gateVars, sendVars, helper_calls, ai_in, ai, messages, calls, temp_file, api_usage_logs>>

\* The completion route that serves the request: the route called, or the one
\* audio_chat picks (ai.py 453-466).
ChatRoute ==
    IF ai_in.endpoint = "audio_chat"
    THEN IF ai_in.has_context THEN "interview_chat" ELSE "chat_completion"
    ELSE ai_in.endpoint

\* audio_chat passes current_user as interview_chat's fifth positional
\* argument, which is `language` (ai.py 456-462 against 139-146): inside that
\* call current_user is the Depends default and has no id.
UserHasId == ~(ai_in.endpoint = "audio_chat" /\ ChatRoute = "interview_chat")

\* request.content: the request's text, or the transcript in audio_chat.
RequestContent ==
    IF ai_in.endpoint = "audio_chat" THEN ai.user_text ELSE ai_in.text

(***************************************************************************)
(* Attachment text extraction (routes/ai.py, process_attached_files)       *)
(***************************************************************************)

\* The character budget of an extracted text (ai.py 722, 728, 761, 804, 860, 885).
CharCap == 15000
\* The largest number of attachments of a request in this model.
MaxFiles == 2

Min_First(a, b) == a

\* min(a, b): the length of s[:b] for a string of a characters.
Min(a, b) == IF a < b THEN a ELSE b

\* A text: its number of characters, and whether str.strip() leaves nothing.
Str(n, blank) == [n |-> n, blank |-> blank]
\* A fixed text of the source, n characters long, that carries words.
Literal(n) == Str(n, FALSE)
\* a + b
Concat(a, b) == Str(a.n + b.n, a.blank /\ b.blank)
\* s[:n]
Truncate(s, n) == Str(Min(s.n, n), s.blank)

\* One entry of request.files. The keys the code reads are original_name,
\* name, file_path, content_type ("" / 0 / <<>> when the key is absent); ext
\* is the extension of the display name. The other fields say what the
\* filesystem and the extraction libraries do with the file: whether the path
\* exists, the fault met while reading it ("import" for a missing library,
\* "error" for an exception), the text the primary reader finds, and the
\* same for the alternate PDF readers pdfplumber (alt_fault, alt_text) and
\* PyMuPDF (fitz_fault, fitz_text); PyMuPDF is not installed unless said.
Attachment(original_name, name, ext, path_len, exists, file_type, fault, text, alt_text) ==
    [original_name |-> original_name, name |-> name, ext |-> ext,
     path_len |-> path_len, exists |-> exists, file_type |-> file_type,
     fault |-> fault, text |-> text, alt_fault |-> "none", alt_text |-> alt_text,
     fitz_fault |-> "import", fitz_text |-> Str(0, TRUE)]

NoText == Str(0, TRUE)
ShortText == Str(40, FALSE)
LongText == Str(CharCap + 1, FALSE)

Attachments ==
    { Attachment("notes.txt", "", "txt", 24, TRUE, <<"text", "plain">>, "none", LongText, NoText),
      Attachment("notes.md", "", "md", 24, TRUE, <<"application", "octet-stream">>, "decode", ShortText, NoText),
      Attachment("old.txt", "", "txt", 24, TRUE, <<"text", "plain">>, "decode_error", ShortText, NoText),
      Attachment("", "", "txt", 24, TRUE, <<"text", "plain">>, "error", ShortText, NoText),
      Attachment("", "draft.txt", "txt", 0, FALSE, <<"text", "plain">>, "none", ShortText, NoText),
      Attachment("gone.pdf", "", "pdf", CharCap + 1, FALSE, <<"application", "pdf">>, "none", ShortText, NoText),
      Attachment("cv.PDF", "", "PDF", 24, TRUE, <<"application", "pdf">>, "none", LongText, NoText),
      Attachment("scan.pdf", "", "pdf", 24, TRUE, <<"application", "pdf">>, "none", NoText, LongText),
      Attachment("cv2.pdf", "", "pdf", 24, TRUE, <<>>, "import", ShortText, NoText),
      Attachment("locked.pdf", "", "pdf", 24, TRUE, <<"application", "pdf">>, "error", ShortText, ShortText),
      Attachment("letter.docx", "", "docx", 24, TRUE, <<>>, "none", LongText, NoText),
      Attachment("broken.doc", "", "doc", 24, TRUE, <<>>, "error", ShortText, NoText),
      Attachment("photo.png", "", "png", 24, TRUE, <<"image", "png">>, "none", NoText, NoText),
      Attachment("data.bin", "", "bin", 24, TRUE, <<"application", "octet-stream">>, "error", ShortText, NoText),
      Attachment("plain.txt", "", "txt", 24, TRUE, <<>>, "none", ShortText, NoText) }

\* The batches of at most n attachments.
Batches(n) == UNION { [1..k -> Attachments] : k \in 0..n }

\* ai.py 702: original_name or name or filename, 'Unknown file' by default.
FileName(f) ==
    IF f.original_name # "" THEN f.original_name
    ELSE IF f.name # "" THEN f.name
    ELSE "Unknown file"

\* ai.py 831: the name used by the outer except is the key 'name' alone.
ErrorName(f) == IF f.name # "" THEN f.name ELSE "Unknown file"

\* str.lower() on the extensions of Attachments.
LowerExt(x) == IF x = "PDF" THEN "pdf" ELSE x

\* ai.py 718, 735, 789, 817, 823: the branch that handles the file.
Branch(f) ==
    IF f.file_type # <<>> /\ (f.file_type[1] = "text" \/ f.ext \in {"txt", "md"})
    THEN "text"
    ELSE IF LowerExt(f.ext) = "pdf" THEN "pdf"
    ELSE IF LowerExt(f.ext) \in {"doc", "docx"} THEN "word"
    ELSE IF f.file_type # <<>> /\ f.file_type[1] = "image" THEN "image"
    ELSE "other"

\* One element of file_contents, "--- {file_name} ---\n{body}\n": the name of
\* its header, the kind of its body and the body.
Section(file_name, kind, body) == [file_name |-> file_name, kind |-> kind, body |-> body]

\* What the body of the loop does for one file: the sections it appends, and
\* whether it ends by raising into the outer except.
Appended(section) == [raised |-> FALSE, sections |-> <<section>>]
Raised == [raised |-> TRUE, sections |-> <<>>]

\* The length of str(e) for the exceptions met here.
ErrorText == Literal(40)

\* The PDF readers in the order the code tries them.
PdfMethods == <<"PyPDF2", "pdfplumber", "PyMuPDF">>

AfterPdfplumberError_TryNext(f) == <<"PyMuPDF">>

\* ai.py 889-892: an exception of pdfplumber other than ImportError leaves
\* the inner try blocks for the outer except, which returns "": PyMuPDF is
\* not tried.
AfterPdfplumberError(f) == <<>>

\* try_alternative_pdf_extraction (ai.py 839-892): the readers it tries, in
\* order. pdfplumber missing (861-862) or finding no text (858) leads to
\* PyMuPDF.
AlternateAttempts(f) ==
    <<"pdfplumber">>
    \o (IF f.alt_fault = "import" THEN <<"PyMuPDF">>
        ELSE IF f.alt_fault # "none" THEN AfterPdfplumberError(f)
        ELSE IF f.alt_text.blank THEN <<"PyMuPDF">>
        ELSE <<>>)

\* What a PDF reader yields for the file: its text, "" on a fault.
Yield(f, method) ==
    CASE method = "PyPDF2" -> IF f.fault = "none" THEN f.text ELSE NoText
      [] method = "pdfplumber" -> IF f.alt_fault = "none" THEN f.alt_text ELSE NoText
      [] OTHER -> IF f.fitz_fault = "none" THEN f.fitz_text ELSE NoText

\* try_alternative_pdf_extraction (ai.py 839-892): the first 15000
\* characters of the first reader tried that finds text; "" otherwise.
try_alternative_pdf_extraction(f) ==
    LET tried == AlternateAttempts(f)
        found == { i \in 1..Len(tried) : ~Yield(f, tried[i]).blank }
    IN  IF found = {} THEN NoText
        ELSE Truncate(Yield(f, tried[CHOOSE i \in found : \A j \in found : i <= j]), CharCap)

\* ai.py 735-787: the readers tried for a PDF file, PyPDF2 first and the
\* alternates when it is missing, raises or finds no text.
PdfAttempts(f) ==
    IF f.path_len = 0 \/ ~f.exists \/ Branch(f) # "pdf" THEN <<>>
    ELSE <<"PyPDF2">>
         \o (IF f.fault = "none" /\ ~f.text.blank THEN <<>> ELSE AlternateAttempts(f))

\* ai.py 765-769, 774-778, 783-787: the alternate text, or the message of the
\* path that fell back.
PdfFallback(f, message) ==
    LET pdf_content == try_alternative_pdf_extraction(f)
    IN  IF pdf_content.n > 0
        THEN Appended(Section(FileName(f), "content", pdf_content))
        ELSE Appended(Section(FileName(f), "notice", message))

\* ai.py 700-827: the try body of the loop for one file.
FileBody(f) ==
    IF f.path_len = 0
    THEN Appended(Section(FileName(f), "error", Literal(30)))
    ELSE IF ~f.exists
    THEN Appended(Section(FileName(f), "error", Literal(27 + f.path_len)))
    ELSE CASE Branch(f) = "text" ->
                 IF f.fault \in {"none", "decode"}
                 THEN Appended(Section(FileName(f), "content", Truncate(f.text, CharCap)))
                 ELSE IF f.fault = "decode_error"
                 THEN Appended(Section(FileName(f), "error", Concat(Literal(22), ErrorText)))
                 ELSE Raised
           [] Branch(f) = "pdf" ->
                 IF f.fault = "import" THEN PdfFallback(f, Literal(101))
                 ELSE IF f.fault # "none" THEN PdfFallback(f, Concat(Literal(74), ErrorText))
                 ELSE IF ~f.text.blank
                 THEN Appended(Section(FileName(f), "content", Truncate(f.text, CharCap)))
                 ELSE PdfFallback(f, Literal(149))
           [] Branch(f) = "word" ->
                 IF f.fault = "import"
                 THEN Appended(Section(FileName(f), "notice", Literal(68)))
                 ELSE IF f.fault # "none"
                 THEN Appended(Section(FileName(f), "error", Concat(Literal(31), ErrorText)))
                 ELSE IF ~f.text.blank
                 THEN Appended(Section(FileName(f), "content", Truncate(f.text, CharCap)))
                 ELSE Appended(Section(FileName(f), "notice", Literal(65)))
           [] Branch(f) = "image" ->
                 IF f.fault # "none" THEN Raised
                 ELSE Appended(Section(FileName(f), "notice", Literal(283)))
           [] OTHER ->
                 IF f.fault # "none" THEN Raised
                 ELSE Appended(Section(FileName(f), "notice", Literal(231)))

HandleFile_DropOnError(f) ==
    LET body == FileBody(f)
    IN  IF body.raised THEN <<>> ELSE body.sections

\* ai.py 698-832: one pass of the loop; an exception of the body is caught
\* and reported as a section of its own, and the loop goes on.
HandleFile(f) ==
    LET body == FileBody(f)
    IN  IF body.raised
        THEN body.sections \o <<Section(ErrorName(f), "error", Concat(Literal(25), ErrorText))>>
        ELSE body.sections

\* ai.py 696-832: file_contents after the loop over the files.
RECURSIVE FileContents(_)
FileContents(files) ==
    IF files = <<>> THEN <<>>
    ELSE HandleFile(Head(files)) \o FileContents(Tail(files))

\* len(file_name) for the names of Attachments.
NameLen(file_name) ==
    CASE file_name = "Unknown file" -> 12
      [] file_name \in {"notes.txt", "draft.txt", "plain.txt"} -> 9
      [] file_name \in {"notes.md", "gone.pdf", "scan.pdf", "data.bin"} -> 8
      [] file_name \in {"old.txt", "cv2.pdf"} -> 7
      [] file_name = "cv.PDF" -> 6
      [] file_name \in {"locked.pdf", "broken.doc"} -> 10
      [] file_name = "letter.docx" -> 11
      [] OTHER -> 9

\* f"--- {file_name} ---\n{body}\n"
SectionText(section) ==
    Concat(Literal(9 + NameLen(section.file_name)), Concat(section.body, Str(1, TRUE)))

\* "\n".join(parts)
RECURSIVE Join(_)
Join(parts) ==
    IF parts = <<>> THEN NoText
    ELSE IF Len(parts) = 1 THEN SectionText(parts[1])
    ELSE Concat(SectionText(parts[1]), Concat(Str(1, TRUE), Join(Tail(parts))))

\* process_attached_files (ai.py 691-836): "" for no files, else the joined
\* sections.
process_attached_files(files) ==
    IF files = <<>> THEN NoText ELSE Join(FileContents(files))

\* The number of history turns sent as context (ai.py 54, 162).
HistoryWindow == 10

Text(src, n) == [src |-> src, n |-> n]
Message(role, content) == [role |-> role, content |-> content]

LastN_KeepOldest(seq, n) == SubSeq(seq, 1, IF Len(seq) < n THEN Len(seq) ELSE n)

\* seq[-n:]
LastN(seq, n) == SubSeq(seq, IF Len(seq) > n THEN Len(seq) - n + 1 ELSE 1, Len(seq))

HistoryRole_Keep(role) == role

\* role = "user" if msg.get("role") == "user" else "assistant"
HistoryRole(role) == IF role = "user" THEN "user" ELSE "assistant"

\* ai.py 52-59, 160-167: the last 10 turns, those with empty content left out.
HistoryMessages(history) ==
    LET kept == SelectSeq(LastN(history, HistoryWindow), LAMBDA m : m.content.n # 0)
    IN  [i \in 1..Len(kept) |-> Message(HistoryRole(kept[i].role), kept[i].content)]

\* request.content as a text.
RequestText == Str(RequestContent, ai_in.blank \/ RequestContent = 0)

\* "Please analyze this attached file:\n\n", with "for the interview" in
\* interview_chat (ai.py 77, 185).
AnalyzePrefix == IF ChatRoute = "interview_chat" THEN Literal(54) ELSE Literal(36)

UserContent_RequestOnly(content, file_content) == content

\* ai.py 72-77, 180-185: the text of the current user message.
UserContent(content, file_content) ==
    IF file_content.n = 0 THEN content
    ELSE IF ~content.blank THEN Concat(content, Concat(Literal(25), file_content))
    ELSE Concat(AnalyzePrefix, file_content)

UserMessage(text) ==
    Message("user", [src |-> "request", n |-> text.n, blank |-> text.blank])

\* ai.py 46-80, 150-188: system message, history, then the current user
\* message with the text of the attached files. process_attached_files
\* catches every exception of a file itself, so the except of 67-69 / 175-177
\* is never entered for a list of dicts.
AssembleMessages ==
    /\ ai_pc = "chat_assemble"
    /\ ai' = [ai EXCEPT !.file_contents = FileContents(ai_in.files),
                        !.pdf_attempts = [i \in 1..Len(ai_in.files) |->
                                             PdfAttempts(ai_in.files[i])]]
    /\ messages' = <<Message("system", Text(ChatRoute, 1))>>
                   \o HistoryMessages(ai_in.conversation_history)
                   \o <<UserMessage(UserContent(RequestText,
                                                process_attached_files(ai_in.files)))>>
    /\ ai_pc' = "chat_completion"
    /\ UNCHANGED <<gateVars, sendVars, helper_calls, ai_in, calls, temp_file, api_usage_logs, response>>

Complete_SwallowFailure ==
    /\ ai_pc = "chat_completion"
    /\ \/ \E text \in CompletionLens :
             /\ calls' = Append(calls, Call("completion", TRUE, 0))
             /\ ai' = [ai EXCEPT !.ai_text = text]
       \/ /\ calls' = Append(calls, Call("completion", FALSE, 0))
          /\ ai' = [ai EXCEPT !.ai_text = 9]
    /\ ai_pc' = IF ChatRoute = "interview_chat" THEN "chat_tts" ELSE "chat_log"
    /\ UNCHANGED <<gateVars, sendVars, helper_calls, ai_in, messages, temp_file, api_usage_logs, response>>

Complete_Retry ==
    /\ ai_pc = "chat_completion"
    /\ \/ \E text \in CompletionLens :
             /\ calls' = Append(calls, Call("completion", TRUE, 0))
             /\ ai' = [ai EXCEPT !.ai_text = text]
             /\ ai_pc' = IF ChatRoute = "interview_chat" THEN "chat_tts" ELSE "chat_log"
             /\ UNCHANGED response
       \/ /\ calls' = Append(calls, Call("completion", FALSE, 0))
          /\ IF \E i \in 1..Len(calls) : calls[i].provider = "completion"
             THEN Raise(500)
             ELSE UNCHANGED <<ai_pc, response>>
          /\ UNCHANGED ai
    /\ UNCHANGED <<gateVars, sendVars, helper_calls, ai_in, messages, temp_file, api_usage_logs>>

\* ai.py 84-95, 190-204: the completion call; a provider error is answered
\* with 500 (130-135, 240-245).
Complete ==
    /\ ai_pc = "chat_completion"
    /\ \/ \E text \in CompletionLens :
             /\ calls' = Append(calls, Call("completion", TRUE, 0))
             /\ ai' = [ai EXCEPT !.ai_text = text]
             /\ ai_pc' = IF ChatRoute = "interview_chat" THEN "chat_tts" ELSE "chat_log"
             /\ UNCHANGED response
       \/ /\ calls' = Append(calls, Call("completion", FALSE, 0))
          /\ Raise(500)
          /\ UNCHANGED ai
    /\ UNCHANGED <<gateVars, sendVars, helper_calls, ai_in, messages, temp_file, api_usage_logs>>

\* interview_chat 206-212 with generate_tts_audio 603-632: synthesize the
\* first 4000 characters of the answer; any failure leaves audio_url None.
\* Without a user id the argument str(current_user.id) raises before the call.
InterviewTts ==
    /\ ai_pc = "chat_tts"
    /\ IF UserHasId
       THEN \E ok \in BOOLEAN :
               /\ calls' = Append(calls, Call("synthesis", ok, Min(ai.ai_text, MaxTtsChars)))
               /\ ai' = [ai EXCEPT !.audio_url = IF ok THEN "url" ELSE "null"]
       ELSE UNCHANGED <<calls, ai>>
    /\ ai_pc' = "chat_log"
    /\ UNCHANGED <<gateVars, sendVars, helper_calls, ai_in, messages, temp_file, api_usage_logs, response>>

\* audio_chat 478-489: the response of a finished round trip.
AudioChatRespond(audio_url) ==
    /\ ai_pc' = "done"
    /\ response' = Response(200, ai.user_text,
                            IF ai_in.include_text_response THEN ai.ai_text ELSE -1,
                            audio_url)

\* chat_completion 105-128 / interview_chat 214-238: log the usage (a failure
\* of the log is swallowed) and return; audio_chat goes on to its step 3 when
\* the answer carries no audio (ai.py 468-469).
ChatLog ==
    /\ ai_pc = "chat_log"
    /\ \E written \in BOOLEAN :
          /\ IF UserHasId THEN LogApiUsage(ChatRoute, written)
                          ELSE written /\ UNCHANGED api_usage_logs
          /\ IF ai_in.endpoint = "audio_chat"
             THEN IF ai.audio_url = "null"
                  THEN ai_pc' = "tts_validate" /\ UNCHANGED response
                  ELSE AudioChatRespond(ai.audio_url)
             ELSE /\ ai_pc' = "done"
                  /\ response' = Response(StatusAfterLog(written), -1, ai.ai_text,
                                          ai.audio_url)
    /\ UNCHANGED <<gateVars, sendVars, helper_calls, ai_in, ai, messages, calls, temp_file>>

\* The arguments text_to_speech is called with: the route's own, or those
\* audio_chat passes (ai.py 470-475).
TtsText == IF ai_in.endpoint = "audio_chat" THEN ai.ai_text ELSE ai_in.text
TtsSpeed == IF ai_in.endpoint = "audio_chat" THEN 100 ELSE ai_in.speed

\* text_to_speech 366-385: length, voice and speed checks.
TtsValidate ==
    /\ ai_pc = "tts_validate"
    /\ IF \/ TtsText > MaxTtsChars
          \/ ai_in.voice \notin valid_voices
          \/ ~(MinSpeed <= TtsSpeed /\ TtsSpeed <= MaxSpeed)
       THEN Raise(400)
       ELSE ai_pc' = "tts_call" /\ UNCHANGED response
    /\ UNCHANGED <<gateVars, sendVars, helper_calls, ai_in, ai, messages, calls, temp_file, api_usage_logs>>

\* text_to_speech 387-429: the synthesis call, the audio file, the usage log.
\* Any exception is answered with 500, which audio_chat re-raises (491-492).
Synthesize ==
    /\ ai_pc = "tts_call"
    /\ \/ \* the provider call raises
          /\ calls' = Append(calls, Call("synthesis", FALSE, TtsText))
          /\ Raise(500)
          /\ UNCHANGED <<ai, api_usage_logs>>
       \/ \* the provider answers and the audio file cannot be written
          /\ calls' = Append(calls, Call("synthesis", TRUE, TtsText))
          /\ Raise(500)
          /\ UNCHANGED <<ai, api_usage_logs>>
       \/ \E written \in BOOLEAN :
             /\ calls' = Append(calls, Call("synthesis", TRUE, TtsText))
             /\ LogApiUsage("tts", written)
             /\ IF ai_in.endpoint = "audio_chat"
                THEN /\ ai' = [ai EXCEPT !.audio_url = "url"]
                     /\ AudioChatRespond("url")
                ELSE /\ ai_pc' = "done"
                     /\ response' = Response(StatusAfterLog(written), -1, -1, "url")
                     /\ UNCHANGED ai
    /\ UNCHANGED <<gateVars, sendVars, helper_calls, ai_in, messages, temp_file>>

NextAudio ==
    \/ SttValidate
    \/ SttBuffer
    \/ Transcribe
    \/ ChatRequest
    \/ AssembleMessages
    \/ Complete
    \/ InterviewTts
    \/ ChatLog
    \/ TtsValidate
    \/ Synthesize

SpecAudio == InitAudio /\ [][NextAudio]_vars

(***************************************************************************)
(* Claims about the speech bridge and the audio round trip                 *)
(***************************************************************************)

Succeeded(provider) ==
    \E i \in 1..Len(calls) : calls[i].provider = provider /\ calls[i].ok

Failed(provider) ==
    \E i \in 1..Len(calls) : calls[i].provider = provider /\ ~calls[i].ok

RoundTripOrder == <<"transcription", "completion", "synthesis">>

\* C5: in audio_chat, when transcription and completion succeeded and the
\* synthesis call fails, the request still answers 200 with the user text,
\* the AI text and audio_url null.
C5_SynthesisFailureSwallowed ==
    (/\ ai_in.endpoint = "audio_chat"
     /\ ai_pc = "done"
     /\ Succeeded("transcription")
     /\ Succeeded("completion")
     /\ Failed("synthesis"))
    => (/\ response.status = 200
        /\ response.user_text = ai.user_text
        /\ response.ai_text = ai.ai_text
        /\ response.audio_url = "null")

\* C6: audio_chat calls the providers in the order transcription, completion,
\* synthesis, each at most once and only after the one before it succeeded;
\* a failed transcription or completion ends the request with an error, no
\* later provider having been called.
C6_StagesInOrderFailFast ==
    ai_in.endpoint = "audio_chat" =>
        /\ Len(calls) <= Len(RoundTripOrder)
        /\ \A i \in 1..Len(calls) : calls[i].provider = RoundTripOrder[i]
        /\ \A i \in 2..Len(calls) : calls[i - 1].ok
        /\ \A i \in 1..Len(calls) :
              (calls[i].provider # "synthesis" /\ ~calls[i].ok)
              => (ai_pc = "done" /\ response.status = 500 /\ Len(calls) = i)

\* C6 witness: the completion failed after a successful transcription and the
\* request ended with an error without a synthesis call.
C6_Witness ==
    /\ ai_in.endpoint = "audio_chat"
    /\ ai_pc = "done"
    /\ Len(calls) = 2
    /\ calls[1] = Call("transcription", TRUE, 0)
    /\ calls[2] = Call("completion", FALSE, 0)
    /\ response.status = 500

AudioInputInvalid ==
    \/ ~IsAudioContentType(ai_in.audio.content_type)
    \/ (Len(ai_in.audio.filename) >= 2
          /\ Lower(ai_in.audio.filename[Len(ai_in.audio.filename)])
                \notin ALLOWED_AUDIO_EXTENSIONS)
    \/ ai_in.audio.size > MAX_FILE_SIZE

InputInvalid ==
    IF ai_in.endpoint = "speech_to_text" THEN AudioInputInvalid
    ELSE IF ai_in.endpoint = "text_to_speech"
    THEN \/ ai_in.text > MaxTtsChars
         \/ ai_in.voice \notin valid_voices
         \/ ai_in.speed < MinSpeed \/ ai_in.speed > MaxSpeed
    ELSE AudioInputInvalid \/ ai_in.voice \notin valid_voices

\* C7: a speech_to_text, text_to_speech or audio_chat request whose input
\* fails validation is rejected without any provider having been called.
C7_RejectedBeforeAnyCall ==
    (ai_pc = "done" /\ InputInvalid)
    => (calls = <<>> /\ response.status # 200)

\* C8: speech_to_text answers 400 when the filename is empty, the extension
\* is not allowed, or the content is larger than MAX_FILE_SIZE (requests that
\* met a filesystem or provider fault are left aside).
C8_SttValidationIs400 ==
    (/\ ai_in.endpoint = "speech_to_text"
     /\ ai_pc = "done"
     /\ ai.raised \notin {"OSError", "ProviderError"}
     /\ \/ ai_in.audio.filename = <<>>
        \/ (Len(ai_in.audio.filename) >= 2
              /\ Lower(ai_in.audio.filename[Len(ai_in.audio.filename)])
                    \notin ALLOWED_AUDIO_EXTENSIONS)
        \/ ai_in.audio.size > MAX_FILE_SIZE)
    => response.status = 400

C27_CompletionLoggedOnce ==
    LET attempts == { i \in 1..Len(api_usage_logs) :
                         api_usage_logs[i].endpoint \in {"chat_completion", "interview_chat"} }
    IN  /\ Cardinality(attempts) <= 1
        /\ (attempts # {}) => Succeeded("completion")
        /\ (/\ Succeeded("completion")
            /\ ai_pc \notin {"chat_tts", "chat_log"})
           => Cardinality(attempts) = 1

(***************************************************************************)
(* The completion routes called on their own, with a conversation history  *)
(***************************************************************************)

MaxHistory == 12
MaxEmptyTurns == 2

\* A history of n turns: turn i carries the text numbered i, or no text when
\* i is in `empty`; turns alternate user / assistant, and turn `sys` (if any)
\* has role "system".
History(n, empty, sys) ==
    [i \in 1..n |->
        [role |-> IF i = sys THEN "system"
                  ELSE IF i % 2 = 1 THEN "user" ELSE "assistant",
         content |-> Text("history", IF i \in empty THEN 0 ELSE i)]]

Histories ==
    UNION { { History(n, empty, sys) :
                empty \in { e \in SUBSET (1..n) : Cardinality(e) <= MaxEmptyTurns },
                sys \in {0, 1, n} }
            : n \in 0..MaxHistory }

\* The requests of the two completion routes (content has 1..4000 characters).
ChatRequests ==
    { [AiInput(endpoint, NoAudio, text, "alloy", 100, FALSE, TRUE)
          EXCEPT !.conversation_history = h] :
        endpoint \in {"chat_completion", "interview_chat"},
        text \in {ContentMinLength},
        h \in Histories }

InitChat == GateOff /\ AiStart(ChatRequests)

NextChat ==
    \/ AssembleMessages
    \/ Complete
    \/ InterviewTts
    \/ ChatLog

SpecChat == InitChat /\ [][NextChat]_vars

(***************************************************************************)
(* Claims about the conversation assembly                                  *)
(***************************************************************************)

\* The history turns among the messages sent: all but the first (system) and
\* the last (current user) message.
SentHistory == SubSeq(messages, 2, Len(messages) - 1)

\* The positions of the last HistoryWindow turns of the request's history.
WindowTurns ==
    { i \in 1..Len(ai_in.conversation_history) :
        i > Len(ai_in.conversation_history) - HistoryWindow }

NonEmptyWindowTurns ==
    { i \in WindowTurns : ai_in.conversation_history[i].content.n # 0 }

\* The j-th smallest element of a set of numbers.
Nth(S, j) == CHOOSE i \in S : Cardinality({k \in S : k <= i}) = j

\* C10 as claimed: with more than 10 history turns, the messages sent carry
\* exactly the last 10 turns, in their original order.
C10_ExactlyLastTenTurns ==
    (messages # <<>> /\ Len(ai_in.conversation_history) > HistoryWindow)
    => /\ Len(SentHistory) = HistoryWindow
       /\ \A j \in 1..Len(SentHistory) :
             SentHistory[j].content =
                ai_in.conversation_history[Nth(WindowTurns, j)].content

\* C10 as amended: with more than 10 history turns, the messages sent carry
\* exactly those of the last 10 turns whose content is not empty, in their
\* original order, each under the role user or assistant.
C10_LastTenNonEmptyTurns ==
    (messages # <<>> /\ Len(ai_in.conversation_history) > HistoryWindow)
    => /\ Len(SentHistory) = Cardinality(NonEmptyWindowTurns)
       /\ \A j \in 1..Len(SentHistory) :
             LET turn == ai_in.conversation_history[Nth(NonEmptyWindowTurns, j)]
             IN  /\ SentHistory[j].content = turn.content
                 /\ SentHistory[j].role =
                       (IF turn.role = "user" THEN "user" ELSE "assistant")

\* C10 witness: a history of more than 10 turns, one of the last 10 without
\* content, was assembled into system + 9 turns + user message.
C10_Witness ==
    /\ Len(ai_in.conversation_history) > HistoryWindow
    /\ Cardinality(NonEmptyWindowTurns) = HistoryWindow - 1
    /\ Len(messages) = HistoryWindow + 1
    /\ Succeeded("completion")

(***************************************************************************)
(* The completion routes called with attached files                        *)
(***************************************************************************)

\* No history, and a history of 11 turns whose turn 2 has no content and
\* whose last turn has the role "system".
FileHistories == { <<>>, History(HistoryWindow + 1, {2}, HistoryWindow + 1) }

\* The requests of the two completion routes that carry files; the content
\* has at least one character and may be all whitespace.
FileRequests ==
    { [AiInput(endpoint, NoAudio, ContentMinLength + 1, "alloy", 100, FALSE, TRUE)
          EXCEPT !.conversation_history = h, !.files = files, !.blank = blank] :
        endpoint \in {"chat_completion", "interview_chat"},
        h \in FileHistories,
        files \in Batches(MaxFiles),
        blank \in BOOLEAN }

InitFiles == GateOff /\ AiStart(FileRequests)

NextFiles ==
    \/ AssembleMessages
    \/ Complete
    \/ InterviewTts
    \/ ChatLog

SpecFiles == InitFiles /\ [][NextFiles]_vars

(***************************************************************************)
(* Claims about the message list and the attachments                       *)
(***************************************************************************)

\* C11: the message list sent to the completion provider is one system
\* message, then the retained history turns in their original order, none of
\* them a system message, then one user message composed from the current
\* request as the last element.
C11_MessageShape ==
    messages # <<>> =>
        /\ Len(messages) >= 2
        /\ messages[1].role = "system"
        /\ \A i \in 2..Len(messages) : messages[i].role \in {"user", "assistant"}
        /\ messages[Len(messages)].role = "user"
        /\ \A i \in 1..Len(messages) :
              (messages[i].content.src = "request") <=> (i = Len(messages))
        /\ Len(SentHistory) = Cardinality(NonEmptyWindowTurns)
        /\ \A j \in 1..Len(SentHistory) :
              /\ SentHistory[j].content.src = "history"
              /\ SentHistory[j].content.n = Nth(NonEmptyWindowTurns, j)

\* C11 witness: a request with files and an 11-turn history that ends with a
\* system-role turn was assembled and sent: system, 9 turns, user message.
C11_Witness ==
    /\ Len(ai_in.conversation_history) = HistoryWindow + 1
    /\ ai_in.conversation_history[HistoryWindow + 1].role = "system"
    /\ ai_in.files # <<>>
    /\ Len(messages) = HistoryWindow + 1
    /\ Succeeded("completion")

\* The current user message of the list sent.
LastMessage == messages[Len(messages)]

\* C12: when the request carries at least one attachment, the user message
\* sent has text that is neither empty nor all whitespace.
C12_UserTextNotEmpty ==
    (messages # <<>> /\ ai_in.files # <<>>) =>
        (LastMessage.content.n > 0 /\ ~LastMessage.content.blank)

\* C12 witness: a request whose own text is blank and whose attachments all
\* failed to extract was sent with a user message that has text.
C12_Witness ==
    /\ messages # <<>>
    /\ ai_in.blank
    /\ Len(ai_in.files) >= 2
    /\ \A i \in 1..Len(ai.file_contents) : ai.file_contents[i].kind = "error"
    /\ ~LastMessage.content.blank

\* C13: process_attached_files emits exactly one section per attachment, in
\* the order of the input, whatever happens to each attachment.
C13_OneSectionPerAttachment ==
    messages # <<>> =>
        /\ Len(ai.file_contents) = Len(ai_in.files)
        /\ \A i \in 1..Len(ai.file_contents) :
              ai.file_contents[i].file_name
                 \in {FileName(ai_in.files[i]), ErrorName(ai_in.files[i])}

\* C13 witness: the first attachment raised inside the loop body, the second
\* was extracted, and both have their section, in that order.
C13_Witness ==
    /\ messages # <<>>
    /\ Len(ai_in.files) = 2
    /\ FileBody(ai_in.files[1]).raised
    /\ Len(ai.file_contents) = 2
    /\ ai.file_contents[1].kind = "error"
    /\ ai.file_contents[2].kind = "content"
    /\ ai.file_contents[2].file_name = FileName(ai_in.files[2])

\* C14: the body of every section emitted for an attachment has at most
\* 15000 characters.
C14_SectionWithinCap ==
    \A i \in 1..Len(ai.file_contents) : ai.file_contents[i].body.n <= CharCap

(***************************************************************************)
(* All the AI routes: the speech routes, audio_chat, and the completion    *)
(* routes called on their own                                              *)
(***************************************************************************)

DirectChatRequests ==
    { AiInput(endpoint, NoAudio, text, "alloy", 100, FALSE, TRUE) :
        endpoint \in {"chat_completion", "interview_chat"},
        text \in {ContentMinLength, ContentMaxLength} }

RouteRequests == SpeechRequests \cup DirectChatRequests

InitRoutes == GateOff /\ AiStart(RouteRequests)

NextRoutes ==
    \/ SttValidate
    \/ SttBuffer
    \/ Transcribe
    \/ ChatRequest
    \/ AssembleMessages
    \/ Complete
    \/ InterviewTts
    \/ ChatLog
    \/ TtsValidate
    \/ Synthesize

SpecRoutes == InitRoutes /\ [][NextRoutes]_vars

(***************************************************************************)
(* Claims about the failures of the AI routes                              *)
(***************************************************************************)

\* The routes that log their usage and answer their caller directly.
LoggedRoutes == {"chat_completion", "interview_chat", "speech_to_text", "text_to_speech"}

\* Some call of log_api_usage made for the request wrote no row.
LogFailed == \E i \in 1..Len(api_usage_logs) : ~api_usage_logs[i].written

\* The response of a route whose work succeeded.
SuccessResponse ==
    IF ai_in.endpoint = "speech_to_text" THEN Response(200, ai.user_text, -1, "absent")
    ELSE IF ai_in.endpoint = "text_to_speech" THEN Response(200, -1, -1, "url")
    ELSE Response(200, -1, ai.ai_text, ai.audio_url)

\* C15: a request to chat_completion, interview_chat, speech_to_text or
\* text_to_speech whose usage log could not be written is answered with the
\* successful response it would have had with the log written.
C15_LogFailureHarmless ==
    (ai_in.endpoint \in LoggedRoutes /\ ai_pc = "done" /\ LogFailed)
    => response = SuccessResponse

\* C15 witness: interview_chat got its completion and its audio, the usage
\* log was not written, and the caller has the answer with the audio.
C15_Witness ==
    /\ ai_in.endpoint = "interview_chat"
    /\ ai_pc = "done"
    /\ api_usage_logs = <<[endpoint |-> "interview_chat", written |-> FALSE]>>
    /\ response.status = 200
    /\ response.audio_url = "url"

\* The number of calls made to a provider.
CallCount(provider) == Cardinality({ i \in 1..Len(calls) : calls[i].provider = provider })

\* C16: the completion provider is called at most once per request, and when
\* that call fails the request ends with an error that carries no assistant
\* text, no other provider being called after it.
C16_CompletionFailureSurfaces ==
    /\ CallCount("completion") <= 1
    /\ Failed("completion")
       => /\ ai_pc = "done"
          /\ response.status = 500
          /\ response.ai_text = -1
          /\ ~calls[Len(calls)].ok

\* C16 witness: interview_chat called on its own, its one completion call
\* failed, and the request ended with 500.
C16_Witness ==
    /\ ai_in.endpoint = "interview_chat"
    /\ ai_pc = "done"
    /\ calls = <<Call("completion", FALSE, 0)>>
    /\ response = Response(500, -1, -1, "absent")

\* C20: every call of the synthesis provider carries at most 4000
\* characters; text_to_speech rejects a longer text without calling the
\* provider, and generate_tts_audio sends the first 4000 characters.
C20_SynthesisInputBounded ==
    /\ \A i \in 1..Len(calls) :
          calls[i].provider = "synthesis" => calls[i].chars <= MaxTtsChars
    /\ (ai_in.endpoint = "text_to_speech" /\ ai_in.text > MaxTtsChars /\ ai_pc = "done")
       => (response.status = 400 /\ calls = <<>>)
    /\ (ai_in.endpoint = "interview_chat" /\ CallCount("synthesis") = 1
          /\ ai.ai_text > MaxTtsChars)
       => calls[Len(calls)].chars = MaxTtsChars

\* C20 witness: interview_chat got an answer of more than 4000 characters and
\* generate_tts_audio synthesized its first 4000.
C20_Witness ==
    /\ ai_in.endpoint = "interview_chat"
    /\ ai.ai_text = MaxTtsChars + 1
    /\ calls = <<Call("completion", TRUE, 0), Call("synthesis", TRUE, MaxTtsChars)>>

(***************************************************************************)
(* Helper functions of routes/ai.py                                        *)
(***************************************************************************)

\* The largest number of calls of a helper in one behaviour.
MaxHelperCalls == 2

\* usage_data: the token counts of a completion.
TokenCounts == {0, 1, 1000, 2500}
Usages == [prompt_tokens : TokenCounts, completion_tokens : TokenCounts]

\* settings.OPENAI_MODEL: the models of the price table and two others.
Models == {"gpt-3.5-turbo", "gpt-4", "gpt-4-turbo", "gpt-4o", ""}

\* ai.py 588-592: dollars per 1000 tokens, in ten-thousandths of a dollar
\* (0.0015 is 15).
pricing ==
    [m \in {"gpt-3.5-turbo", "gpt-4", "gpt-4-turbo"} |->
        CASE m = "gpt-3.5-turbo" -> [input |-> 15, output |-> 20]
          [] m = "gpt-4" -> [input |-> 300, output |-> 600]
          [] m = "gpt-4-turbo" -> [input |-> 100, output |-> 300]]

calculate_openai_cost_DefaultRate(usage_data, model) ==
    LET rate == IF model \in DOMAIN pricing THEN pricing[model] ELSE pricing["gpt-3.5-turbo"]
    IN  usage_data.prompt_tokens * rate.input + usage_data.completion_tokens * rate.output

\* calculate_openai_cost (ai.py 585-600). The result is in units of 10^-7
\* dollars: (tokens / 1000) * rate dollars is tokens * (rate * 10^4) units.
calculate_openai_cost(usage_data, model) ==
    IF model \notin DOMAIN pricing
    THEN 0
    ELSE usage_data.prompt_tokens * pricing[model].input
         + usage_data.completion_tokens * pricing[model].output

HelperCall(fn, args, result) == [fn |-> fn, args |-> args, result |-> result]

\* One call of calculate_openai_cost.
CalculateCost ==
    /\ Len(helper_calls) < MaxHelperCalls
    /\ \E usage_data \in Usages, model \in Models :
          helper_calls' = Append(helper_calls,
              HelperCall("calculate_openai_cost", <<usage_data, model>>,
                         calculate_openai_cost(usage_data, model)))
    /\ UNCHANGED <<gateVars, sendVars, ai_in, ai_pc, ai, messages, calls, temp_file,
                   api_usage_logs, response>>

InitCost == GateOff /\ AiOff

NextCost ==
    \/ CalculateCost

SpecCost == InitCost /\ [][NextCost]_vars

\* C18: calculate_openai_cost returns prompt tokens times the input rate
\* plus completion tokens times the output rate (rates per 1000 tokens) for
\* gpt-3.5-turbo, gpt-4 and gpt-4-turbo, and 0 for any other model.
C18_CostFormula ==
    \A i \in 1..Len(helper_calls) :
        LET p == helper_calls[i].args[1].prompt_tokens
            c == helper_calls[i].args[1].completion_tokens
            model == helper_calls[i].args[2]
        IN  helper_calls[i].result =
                CASE model = "gpt-3.5-turbo" -> p * 15 + c * 20
                  [] model = "gpt-4" -> p * 300 + c * 600
                  [] model = "gpt-4-turbo" -> p * 100 + c * 300
                  [] OTHER -> 0

\* C18 witness: a call for gpt-4 with 1000 prompt and 2500 completion tokens
\* returned $0.03 + $0.15, and a call for a model without a price returned 0.
C18_Witness ==
    /\ Len(helper_calls) = 2
    /\ helper_calls[1].args = <<[prompt_tokens |-> 1000, completion_tokens |-> 2500], "gpt-4">>
    /\ helper_calls[1].result = 1800000
    /\ helper_calls[2].args = <<[prompt_tokens |-> 1000, completion_tokens |-> 2500], "gpt-4o">>
    /\ helper_calls[2].result = 0

\* The arguments of build_interview_system_prompt: None is written "None".
JobPositions == {"None", "", "Engineer"}
CompanyNames == {"None", "Acme"}
Difficulties == {"easy", "medium", "hard", "expert"}
Languages == {"en", "fr", "de"}

\* The truth value of an Optional[str]: None and "" are false.
Truthy(x) == x \notin {"None", ""}

\* f"{x if x else default}"
OrDefault(x, default) == IF Truthy(x) THEN x ELSE default

build_interview_system_prompt_Stateful(job_position, company_name, difficulty, language) ==
    <<"prompt", job_position, company_name, difficulty, language, Len(helper_calls)>>

\* build_interview_system_prompt (ai.py 505-582): the prompt as the sequence
\* of its parts, the fixed texts named by their first words.
build_interview_system_prompt(job_position, company_name, difficulty, language) ==
    LET fr == language = "fr"
        base_prompt ==
            << IF fr THEN "Tu es Sarah" ELSE "You are Sarah",
               OrDefault(company_name, IF fr THEN "la compagnie" ELSE "the company"),
               OrDefault(job_position, IF fr THEN "le poste" ELSE "the role"),
               OrDefault(job_position, IF fr THEN "poste" ELSE "position"),
               IF fr THEN "IMPORTANT: Reponds TOUJOURS en francais"
                     ELSE "IMPORTANT: Always respond in English" >>
        company == IF Truthy(company_name)
                   THEN <<"You work as an HR recruiter at", company_name>>
                   ELSE <<>>
        job == IF Truthy(job_position)
               THEN <<"You are interviewing candidates for the", job_position,
                      "Focus on skills">>
               ELSE <<>>
        level == IF difficulty \in {"easy", "medium", "hard"} THEN difficulty ELSE "medium"
        difficulty_context == << IF fr THEN "Mene un entretien" ELSE "Conduct", level >>
        guidelines ==
            << IF fr THEN "Directives d'entretien" ELSE "Interview Guidelines",
               OrDefault(company_name, IF fr THEN "la compagnie" ELSE "the company"),
               OrDefault(job_position, IF fr THEN "poste" ELSE "role"),
               IF fr THEN "Rappel" ELSE "Remember" >>
    IN  base_prompt \o company \o job \o difficulty_context \o guidelines

\* One call of build_interview_system_prompt.
BuildPrompt ==
    /\ Len(helper_calls) < MaxHelperCalls
    /\ \E job_position \in JobPositions, company_name \in CompanyNames,
          difficulty \in Difficulties, language \in Languages :
          helper_calls' = Append(helper_calls,
              HelperCall("build_interview_system_prompt",
                         <<job_position, company_name, difficulty, language>>,
                         build_interview_system_prompt(job_position, company_name,
                                                       difficulty, language)))
    /\ UNCHANGED <<gateVars, sendVars, ai_in, ai_pc, ai, messages, calls, temp_file,
                   api_usage_logs, response>>

InitPrompt == GateOff /\ AiOff

NextPrompt ==
    \/ BuildPrompt

SpecPrompt == InitPrompt /\ [][NextPrompt]_vars

ReaderFaults == {"none", "import", "error"}

\* An existing PDF file for every outcome of the three readers; a reader
\* that finds text finds a text of its own length.
PdfAttachments ==
    { [Attachment("cv.pdf", "", "pdf", 24, TRUE, <<"application", "pdf">>, fault, text, alt_text)
          EXCEPT !.alt_fault = alt_fault, !.fitz_fault = fitz_fault,
                 !.fitz_text = fitz_text] :
        fault \in ReaderFaults, text \in {NoText, Str(40, FALSE)},
        alt_fault \in ReaderFaults, alt_text \in {NoText, Str(41, FALSE)},
        fitz_fault \in ReaderFaults, fitz_text \in {NoText, Str(42, FALSE)} }

PdfRequests ==
    { [AiInput(endpoint, NoAudio, ContentMinLength + 1, "alloy", 100, FALSE, TRUE)
          EXCEPT !.files = <<f>>] :
        endpoint \in {"chat_completion", "interview_chat"}, f \in PdfAttachments }

InitPdf == GateOff /\ AiStart(PdfRequests)

NextPdf ==
    \/ AssembleMessages
    \/ Complete
    \/ InterviewTts
    \/ ChatLog

SpecPdf == InitPdf /\ [][NextPdf]_vars

\* The readers that find text in the file, by their place in PdfMethods.
YieldingMethods(f) == { k \in 1..Len(PdfMethods) : ~Yield(f, PdfMethods[k]).blank }

\* C21: for a PDF file the readers are tried in the order PyPDF2,
\* pdfplumber, PyMuPDF; a reader is tried whenever every reader before it
\* yielded no text, and the text emitted is that of the first reader that
\* yields text.
C21_PdfMethodsInOrder ==
    (messages # <<>> /\ Len(ai_in.files) = 1 /\ Branch(ai_in.files[1]) = "pdf"
       /\ ai_in.files[1].exists)
    => LET f == ai_in.files[1]
           tried == ai.pdf_attempts[1]
       IN  /\ \A k \in 1..Len(tried) : tried[k] = PdfMethods[k]
           /\ \A k \in 1..Len(PdfMethods) :
                 (\A j \in 1..(k - 1) : Yield(f, PdfMethods[j]).blank)
                 => k <= Len(tried)
           /\ YieldingMethods(f) # {}
              => /\ ai.file_contents[1].kind = "content"
                 /\ ai.file_contents[1].body =
                       Yield(f, PdfMethods[CHOOSE k \in YieldingMethods(f) :
                                             \A j \in YieldingMethods(f) : k <= j])

\* C22: a file that exists, can be read, has no declared media type and is
\* named *.txt or *.md is decoded as plain text: its section carries the
\* first 15000 characters of its text.
C22_TextByExtension ==
    messages # <<>> =>
        \A i \in 1..Len(ai_in.files) :
            LET f == ai_in.files[i]
            IN  (f.path_len > 0 /\ f.exists /\ f.fault = "none"
                   /\ f.file_type = <<>> /\ f.ext \in {"txt", "md"})
                => /\ ai.file_contents[i].kind = "content"
                   /\ ai.file_contents[i].body = Truncate(f.text, CharCap)

(***************************************************************************)
(* Messages sent to a stored interview chat (routes/chats.py,              *)
(* send_interview_chat_message)                                            *)
(***************************************************************************)

\* One turn of a stored conversation; timestamp tells the turns apart
\* (<<0, i>> for the i-th turn stored before the requests, <<r, k>> for the
\* k-th turn of request r). audio_url is "absent" for a turn without the key.
Turn(role, content, timestamp, audio_url) ==
    [role |-> role, content |-> content, timestamp |-> timestamp, audio_url |-> audio_url]

\* A conversation of n turns stored before the requests arrive, the
\* interviewer and the candidate speaking in turn.
Stored(n) ==
    [i \in 1..n |-> Turn(IF i % 2 = 1 THEN "assistant" ELSE "user",
                         Text("stored", i), <<0, i>>, "absent")]

\* The rows the select of a request can find: no row, or the chat with an
\* empty conversation, a short one, or one that fills the history window.
StoredChats ==
    { <<>> } \cup { <<[conversation |-> Stored(n)]>> : n \in {0, 1, HistoryWindow} }

\* request.content of request r: r characters, so that the requests differ.
SendContent(r) == [src |-> "request", n |-> r, blank |-> FALSE]

\* chats.py 674-678: the user turn of request r.
UserTurn(r) == Turn("user", SendContent(r), <<r, 1>>, "absent")

\* chats.py 702-707: the assistant turn of request r.
AiTurn(r, text, audio_url) == Turn("assistant", Text("completion", text), <<r, 2>>, audio_url)

\* The end of a request.
SendDone(r, code) == send' = [send EXCEPT ![r].pc = "done", ![r].status = code]

\* chats.py 656-681: select the chat (404 when it is not found, 500 when the
\* select raises), then append the user turn to the conversation read.
SendSelect(r) ==
    /\ send[r].pc = "idle"
    /\ \/ IF interview_chat_row = <<>>
          THEN SendDone(r, 404)
          ELSE send' = [send EXCEPT
                          ![r].pc = "interview_chat",
                          ![r].chat_data = interview_chat_row[1],
                          ![r].conversation =
                              Append(interview_chat_row[1].conversation, UserTurn(r))]
       \/ SendDone(r, 500)
    /\ UNCHANGED <<gateVars, interview_chat_row, ai_in, ai_pc, ai, messages, calls,
                   temp_file, api_usage_logs, response, helper_calls>>

\* interview_chat 150-188 for the request built at chats.py 686-690: the
\* system message, the history that was passed, then request.content.
InterviewMessages(history, content) ==
    <<Message("system", Text("interview_chat", 1))>>
    \o HistoryMessages(history)
    \o <<UserMessage(content)>>

AiFailure_StoreUserTurn(r) ==
    /\ calls' = Append(calls, Call("completion", FALSE, 0))
    /\ interview_chat_row' = <<[conversation |-> send[r].conversation]>>
    /\ send' = [send EXCEPT ![r].pc = "done", ![r].status = 500,
                            ![r].messages =
                                InterviewMessages(LastN(send[r].conversation, HistoryWindow),
                                                  SendContent(r))]
    /\ UNCHANGED api_usage_logs

\* interview_chat raises 500 when the completion fails (ai.py 240-245); the
\* handler lets it through (chats.py 736-737) before any update.
AiFailure(r) ==
    /\ calls' = Append(calls, Call("completion", FALSE, 0))
    /\ send' = [send EXCEPT ![r].pc = "done", ![r].status = 500,
                            ![r].messages =
                                InterviewMessages(LastN(send[r].conversation, HistoryWindow),
                                                  SendContent(r))]
    /\ UNCHANGED <<interview_chat_row, api_usage_logs>>

\* chats.py 683-709: the call of interview_chat with the last 10 turns of the
\* conversation as history (completion, synthesis of the answer, usage log),
\* then the assistant turn appended to the conversation.
SendInterviewChat(r) ==
    /\ send[r].pc = "interview_chat"
    /\ \/ \E text \in CompletionLens, ok \in BOOLEAN, written \in BOOLEAN :
             LET audio_url == IF ok THEN "url" ELSE "null"
             IN  /\ calls' = calls \o <<Call("completion", TRUE, 0),
                                         Call("synthesis", ok, Min(text, MaxTtsChars))>>
                 /\ LogApiUsage("interview_chat", written)
                 /\ send' = [send EXCEPT
                               ![r].pc = "update",
                               ![r].messages =
                                   InterviewMessages(
                                       LastN(send[r].conversation, HistoryWindow),
                                       SendContent(r)),
                               ![r].conversation =
                                   Append(send[r].conversation, AiTurn(r, text, audio_url))]
                 /\ UNCHANGED interview_chat_row
       \/ AiFailure(r)
    /\ UNCHANGED <<gateVars, ai_in, ai_pc, ai, messages, temp_file, response, helper_calls>>

\* chats.py 711-727: write the whole conversation back; no row returned or
\* an exception is answered with 500.
SendUpdate(r) ==
    /\ send[r].pc = "update"
    /\ \/ /\ interview_chat_row # <<>>
          /\ interview_chat_row' = <<[conversation |-> send[r].conversation]>>
          /\ SendDone(r, 200)
       \/ /\ UNCHANGED interview_chat_row
          /\ SendDone(r, 500)
    /\ UNCHANGED <<gateVars, ai_in, ai_pc, ai, messages, calls, temp_file,
                   api_usage_logs, response, helper_calls>>

InitSend ==
    /\ GateOff
    /\ AiIdle
    /\ interview_chat_row \in StoredChats
    /\ send = [r \in Requests |-> IdleSend]

NextSend ==
    \E r \in Requests :
        \/ SendSelect(r)
        \/ SendInterviewChat(r)
        \/ SendUpdate(r)

SpecSend == InitSend /\ [][NextSend]_vars

\* The conversation stored for the chat (empty when there is no row).
StoredConversation ==
    IF interview_chat_row = <<>> THEN <<>> ELSE interview_chat_row[1].conversation

IsPrefix(s, t) == Len(s) <= Len(t) /\ SubSeq(t, 1, Len(s)) = s

\* C26: the stored conversation of an interview chat is append-only: every
\* step of any interleaving of send requests keeps the turns already stored,
\* in their order, as the beginning of the stored conversation.
C26_ConversationAppendOnly ==
    [][IsPrefix(StoredConversation, StoredConversation')]_vars

\* C29: the current user message appears exactly once in the messages sent to
\* the completion provider, and the history passed to interview_chat does
\* not hold the turn of that message.
C29_CurrentMessageOnce ==
    \A r \in Requests :
        send[r].messages # <<>> =>
            LET sent == send[r].messages
                history == LastN(SubSeq(send[r].conversation, 1,
                                        Len(send[r].chat_data.conversation) + 1),
                                 HistoryWindow)
            IN  /\ Cardinality({ i \in 1..Len(sent) :
                                    sent[i] = UserMessage(SendContent(r)) }) = 1
                /\ \A i \in 1..Len(history) : history[i].timestamp # <<r, 1>>

====
